---------------------------- MODULE Spec2Model ----------------------------
(***************************************************************************)
(* A model of astrodendro/analysis.py: the weighted-moment engine          *)
(* (ScalarStatistic), the metadata descriptors (MetaData,                   *)
(* _warn_missing_metadata), the derived PPV quantities (PPVStatistic), the  *)
(* unimplemented classes, and the catalog driver (ppv_catalog).             *)
(*                                                                         *)
(* Floating point numbers are modelled as exact rationals extended with    *)
(* NaN, +Inf and -Inf, which follow the IEEE rules numpy applies.  Values   *)
(* that leave the rationals (square roots, eigenvectors, arctangents) are   *)
(* kept as symbolic terms over their exact arguments.                       *)
(***************************************************************************)
EXTENDS Integers, Sequences, FiniteSets, TLC

VARIABLES
    npAllNan,      \* what np.nansum returns for an all-NaN array: "zero" or "nan"
    arg_values,    \* the value array the caller passes to ScalarStatistic
    arg_indices,   \* the tuple of coordinate arrays the caller passes
    stat,          \* the ScalarStatistic object: [built, values, indices]
    metadata,      \* the metadata dict: key -> value, for the keys it holds
    direction,     \* the caller's direction / axes array (2-D, rows of numbers)
    op,            \* the operation called last
    result,        \* its outcome: [ok, val, exc]
    passed,        \* the arguments the last operation handed on (to mom2_along, arctan2)
    schema,        \* the MetaData descriptors of the statistics class: key -> [default, strict]
    structures,    \* ppv_catalog's structures argument: a sequence of [values, indices]
    fields,        \* ppv_catalog's fields argument: [given, names]; not given is None
    labels,        \* ppv_catalog's local fields once it is bound: the quantities to extract
    pc,            \* where ppv_catalog is: "off", "start", "fields", "loop", "done", "failed"
    records,       \* ppv_catalog's result list: one dict per structure processed
    warnings,      \* warnings.warn calls so far: key -> number of warnings about it
    error,         \* the exception ppv_catalog raised: [exc, items]
    validations,   \* calls of _warn_missing_metadata so far
    nread,         \* structures read so far
    reads          \* the metadata reads made so far: <<key, value read>>

statVars == <<arg_values, arg_indices, stat, direction, op, result, passed>>
catVars == <<structures, fields, labels, pc, records, warnings, error, validations, nread, reads>>
vars == <<npAllNan, metadata, schema, statVars, catVars>>

----------------------------------------------------------------------------
(* Bounds of the model *)

MaxN == 3        \* samples per structure
MaxStructs == 2  \* structures handed to ppv_catalog
MaxAbsent == 2   \* declared metadata fields left out of the metadata dict

----------------------------------------------------------------------------
(* Numbers: float64 as extended rationals, plus symbolic terms *)

RECURSIVE GCD(_, _)
GCD(a, b) == IF b = 0 THEN a ELSE GCD(b, a % b)

Abs(i) == IF i < 0 THEN -i ELSE i

Mk(kind, n, d, f, a) == [k |-> kind, n |-> n, d |-> d, f |-> f, a |-> a]

\* the rational n/d (d # 0), in lowest terms with a positive denominator
Rat(n, d) ==
    LET g == GCD(Abs(n), Abs(d))
        s == IF d < 0 THEN -1 ELSE 1
    IN  Mk("fin", (s * n) \div g, (s * d) \div g, "", <<>>)

Int2F(i) == Mk("fin", i, 1, "", <<>>)
NaN == Mk("nan", 0, 1, "", <<>>)
PInf == Mk("pinf", 0, 1, "", <<>>)
NInf == Mk("ninf", 0, 1, "", <<>>)
Sym(f, args) == Mk("sym", 0, 1, f, args)

IsNaN(x) == x.k = "nan"
IsFin(x) == x.k = "fin"
IsSym(x) == x.k = "sym"
IsInf(x) == x.k \in {"pinf", "ninf"}

\* -1, 0 or 1 for a finite or infinite number
Sign(x) ==
    CASE x.k = "pinf" -> 1
      [] x.k = "ninf" -> -1
      [] OTHER -> IF x.n > 0 THEN 1 ELSE IF x.n < 0 THEN -1 ELSE 0

Signed(s) == IF s > 0 THEN PInf ELSE NInf

Neg(x) ==
    CASE x.k = "fin" -> Rat(-x.n, x.d)
      [] x.k = "pinf" -> NInf
      [] x.k = "ninf" -> PInf
      [] x.k = "nan" -> NaN
      [] OTHER -> Sym("neg", <<x>>)

Add(x, y) ==
    IF IsSym(x) \/ IsSym(y) THEN Sym("add", <<x, y>>)
    ELSE IF IsNaN(x) \/ IsNaN(y) THEN NaN
    ELSE IF IsFin(x) /\ IsFin(y) THEN Rat(x.n * y.d + y.n * x.d, x.d * y.d)
    ELSE IF IsFin(x) THEN y
    ELSE IF IsFin(y) THEN x
    ELSE IF x.k = y.k THEN x ELSE NaN          \* inf + -inf

Sub(x, y) == IF IsSym(x) \/ IsSym(y) THEN Sym("sub", <<x, y>>) ELSE Add(x, Neg(y))

Mul(x, y) ==
    IF IsSym(x) \/ IsSym(y) THEN Sym("mul", <<x, y>>)
    ELSE IF IsNaN(x) \/ IsNaN(y) THEN NaN
    ELSE IF IsFin(x) /\ IsFin(y) THEN Rat(x.n * y.n, x.d * y.d)
    ELSE IF Sign(x) * Sign(y) = 0 THEN NaN     \* 0 * inf
    ELSE Signed(Sign(x) * Sign(y))

\* float division as numpy does it: a zero divisor gives inf or nan, no exception
Div(x, y) ==
    IF IsSym(x) \/ IsSym(y) THEN Sym("div", <<x, y>>)
    ELSE IF IsNaN(x) \/ IsNaN(y) THEN NaN
    ELSE IF IsFin(x) /\ IsFin(y) THEN
        IF y.n # 0 THEN Rat(x.n * y.d, x.d * y.n)
        ELSE IF x.n = 0 THEN NaN ELSE Signed(Sign(x))
    ELSE IF IsInf(x) /\ IsInf(y) THEN NaN
    ELSE IF IsFin(x) THEN Int2F(0)             \* finite / inf
    ELSE IF Sign(y) < 0 THEN Neg(x) ELSE x     \* inf / finite

Sq(x) == IF IsSym(x) THEN Sym("sq", <<x>>) ELSE Mul(x, x)

\* the integer r >= 0 with r * r = n, or -1
ISqrt(n) == IF \E r \in 0..n : r * r = n THEN CHOOSE r \in 0..n : r * r = n ELSE -1

\* np.sqrt: NaN for a negative argument, never an exception
Sqrt(x) ==
    CASE x.k = "nan" -> NaN
      [] x.k = "pinf" -> PInf
      [] x.k = "ninf" -> NaN
      [] x.k = "fin" ->
            IF x.n < 0 THEN NaN
            ELSE IF ISqrt(x.n) >= 0 /\ ISqrt(x.d) >= 0 THEN Rat(ISqrt(x.n), ISqrt(x.d))
            ELSE Sym("sqrt", <<x>>)
      [] OTHER -> Sym("sqrt", <<x>>)

RECURSIVE SumSeq(_)
SumSeq(xs) == IF xs = <<>> THEN Int2F(0) ELSE Add(SumSeq(SubSeq(xs, 1, Len(xs) - 1)), xs[Len(xs)])

\* np.sum: NaN propagates

\* np.nansum: NaN entries are left out of the sum
nansum(xs) ==
    LET kept == SelectSeq(xs, LAMBDA x : ~IsNaN(x))
    IN  IF kept = <<>> /\ xs # <<>> /\ npAllNan = "nan" THEN NaN ELSE SumSeq(kept)

----------------------------------------------------------------------------
(* Outcomes of a call, and numpy's elementwise arithmetic *)

\* e bound to a name: F's parameter
Bind(e, F(_)) == F(e)

Ok(v) == [ok |-> TRUE, val |-> v, exc |-> ""]
Raise(e) == [ok |-> FALSE, val |-> <<>>, exc |-> e]

\* shapes (n,) broadcast together when all lengths other than 1 agree
Compat(lens) == \A a \in lens, b \in lens : a = b \/ a = 1 \/ b = 1

BLen(x, y) == IF Len(x) = 1 THEN Len(y) ELSE Len(x)
At(x, i) == IF Len(x) = 1 THEN x[1] ELSE x[i]
EMul(x, y) == [i \in 1..BLen(x, y) |-> Mul(At(x, i), At(y, i))]
ESubS(x, s) == [i \in 1..Len(x) |-> Sub(x[i], s)]
EDivS(x, s) == [i \in 1..Len(x) |-> Div(x[i], s)]
ESq(x) == [i \in 1..Len(x) |-> Sq(x[i])]
ToFloat(xs) == [i \in 1..Len(xs) |-> Int2F(xs[i])]
ToFloat2(A) == [i \in 1..Len(A) |-> ToFloat(A[i])]


----------------------------------------------------------------------------
(* Python lists, indexed from 0 as in the source *)

\* list.pop(i): the list without its element at index i
Pop(l, i) == [t \in 1..(Len(l) - 1) |-> IF t <= i THEN l[t] ELSE l[t + 1]]

\* list.insert(i, x): x placed before index i
Insert(l, i, x) ==
    [t \in 1..(Len(l) + 1) |-> IF t <= i THEN l[t] ELSE IF t = i + 1 THEN x ELSE l[t - 1]]

\* l[i] = x
SetItem(l, i, x) == [l EXCEPT ![i + 1] = x]

----------------------------------------------------------------------------
(* Matrices: sequences of rows *)

Transpose(A) == [j \in 1..Len(A[1]) |-> [i \in 1..Len(A) |-> A[i][j]]]

\* np.dot of a (k x n) and an (n x m) matrix; the caller checks the shapes
MatMul(A, B) ==
    [i \in 1..Len(A) |->
        [j \in 1..Len(B[1]) |->
            SumSeq([t \in 1..Len(B) |-> Mul(A[i][t], B[t][j])])]]

MatFinite(A) == \A i \in 1..Len(A) : \A j \in 1..Len(A[i]) : IsFin(A[i][j])

\* np.linalg.norm of a vector
norm(row) ==
    IF \E i \in 1..Len(row) : IsSym(row[i]) THEN Sym("norm", row)
    ELSE Sqrt(SumSeq(ESq(row)))

\* for row in w: row /= np.linalg.norm(row)
NormaliseRows(w) == [i \in 1..Len(w) |-> EDivS(w[i], norm(w[i]))]

\* Column r (0 = largest eigenvalue) of np.linalg.eig's eigenvector matrix after
\* the descending sort order[::-1] of np.argsort(w).  The components are
\* irrational in general and stay symbolic: eigvec(r, component) names
\* component number `component` of that column of the matrix decomposed.
EigVec(M, r) == [c \in 1..Len(M) |-> Sym("eigvec", <<Int2F(r), Int2F(c - 1)>>)]

\* np.linalg.eig followed by the descending sort: LinAlgError unless M is a
\* square matrix of finite numbers
eig_sorted(M) ==
    IF ~MatFinite(M) THEN Raise("LinAlgError")
    ELSE Ok([r \in 1..Len(M) |-> EigVec(M, r - 1)])

----------------------------------------------------------------------------
(* ScalarStatistic.  self is [values, indices]; nd = Len(self.indices) *)

\* a conversion that would hand back the array it was given
astype_float_nocopy(heap, src) == [heap |-> heap, ref |-> src]

\* .astype(np.float): a new array object holding a copy; ref names it in the heap
astype_float(heap, src) ==
    [heap |-> [x \in DOMAIN heap \cup {"copy"} |-> IF x = "copy" THEN heap[src] ELSE heap[x]],
     ref |-> "copy"]

\* __init__: self.values = values.astype(np.float); self.indices = indices
ScalarStatistic_init(values, indices) ==
    LET a == astype_float([values |-> values], "values")
    IN  Ok([values |-> a.heap[a.ref], indices |-> indices])

\* values.size
count(self) == Ok(Int2F(Len(self.values)))

\* a total that would let a missing sample through: np.sum
mom0_sum(self) == Ok(SumSeq(self.values))

mom0(self) == Ok(nansum(self.values))

mom1(self) ==
    Bind(mom0(self).val, LAMBDA m0 :
        IF \E j \in 1..Len(self.indices) :
                ~Compat({Len(self.indices[j]), Len(self.values)})
        THEN Raise("ValueError")
        ELSE Ok([j \in 1..Len(self.indices) |->
                    Div(nansum(EMul(ToFloat(self.indices[j]), self.values)), m0)]))

\* result[i, j] of mom2 for i <= j, from the weights v and the offsets zyx
mom2_entry(v, zyx, i, j) ==
    IF i = j THEN nansum(EMul(v, ESq(zyx[i])))
    ELSE nansum(EMul(EMul(v, zyx[i]), zyx[j]))

Min2(i, j) == IF i <= j THEN i ELSE j
Max2(i, j) == IF i <= j THEN j ELSE i

mom2(self) ==
    Bind(mom1(self), LAMBDA m1 :
    Bind(EDivS(self.values, mom0(self).val), LAMBDA v :
        IF ~m1.ok THEN m1
        ELSE IF \E i \in 1..Len(self.indices), j \in 1..Len(self.indices) :
                    ~Compat({Len(self.values), Len(self.indices[i]), Len(self.indices[j])})
        THEN Raise("ValueError")
        ELSE Bind([j \in 1..Len(self.indices) |->
                        ESubS(ToFloat(self.indices[j]), m1.val[j])], LAMBDA zyx :
                Ok([i \in 1..Len(self.indices) |->
                       [j \in 1..Len(self.indices) |->
                           mom2_entry(v, zyx, Min2(i, j), Max2(i, j))]]))))

\* np.dot(np.dot(w, m2), w.T), a scalar when there is one row (result.size == 1)
mom2_along_result(w, m2, nd) ==
    IF ~m2.ok THEN m2
    ELSE IF \E i \in 1..Len(w) : Len(w[i]) # nd THEN Raise("ValueError")
    ELSE IF Len(w) = 1 THEN Ok(MatMul(MatMul(w, m2.val), Transpose(w))[1][1])
    ELSE Ok(MatMul(MatMul(w, m2.val), Transpose(w)))

\* mom2_along on the array object d the caller passes.  Returns the outcome and
\* the caller's array as it is after the call: w is the array astype returns,
\* and its rows are normalised in place.
mom2_along(self, d) ==
    Bind(astype_float([direction |-> d], "direction"), LAMBDA a :
    Bind([a.heap EXCEPT ![a.ref] = NormaliseRows(@)], LAMBDA h :
        [out |-> mom2_along_result(h[a.ref], mom2(self), Len(self.indices)),
         direction |-> h.direction]))

paxes(self) ==
    Bind(mom2(self), LAMBDA m2 : IF ~m2.ok THEN m2 ELSE eig_sorted(m2.val))

projected_paxes(self, axes) ==
    Bind(mom2_along(self, axes), LAMBDA m :
        [out |-> IF ~m.out.ok THEN m.out
                 ELSE IF Len(axes) = 1 THEN Raise("LinAlgError")   \* eig of a scalar
                 ELSE eig_sorted(m.out.val),
         direction |-> m.direction])

surface_area(self) == Raise("NotImplementedError")
perimeter(self) == Raise("NotImplementedError")


----------------------------------------------------------------------------
(* MetaData descriptors.  A metadata dict is a function from the keys it    *)
(* holds to their values; a schema maps each declared key to its            *)
(* [default, strict] pair.                                                  *)

PPVKeys == {"dx", "dv", "vaxis", "bmaj", "bmin", "bunit", "dist"}

\* MetaData.__init__: default=1, strict=False unless given
MetaData(default, strict) == [default |-> default, strict |-> strict]

\* the MetaData descriptors declared in the body of class PPVStatistic
PPVSchema ==
    [key \in PPVKeys |->
        IF key \in {"bmaj", "bmin"} THEN MetaData(0, FALSE) ELSE MetaData(1, FALSE)]

\* MetaData.__get__ on an instance: the stored value, else KeyError for a
\* strict field, else the default
MetaData_get(cl, md, key) ==
    IF cl[key].strict /\ key \notin DOMAIN md THEN Raise("KeyError")
    ELSE Ok(IF key \in DOMAIN md THEN md[key] ELSE cl[key].default)

\* the declared fields of class cl absent from md
_missing_metadata(cl, md) == {key \in DOMAIN cl : key \notin DOMAIN md}

\* a validation that would report one absent strict field only
_warn_missing_metadata_first(cl, md) ==
    Bind(_missing_metadata(cl, md), LAMBDA missing :
    Bind({m \in missing : cl[m].strict}, LAMBDA required :
        IF required # {}
        THEN [raise |-> TRUE, required |-> {CHOOSE m \in required : TRUE}, warned |-> {}]
        ELSE [raise |-> FALSE, required |-> {}, warned |-> missing]))

\* _warn_missing_metadata: one RuntimeError naming every absent strict field,
\* else one warning per absent field
_warn_missing_metadata(cl, md) ==
    Bind(_missing_metadata(cl, md), LAMBDA missing :
    Bind({m \in missing : cl[m].strict}, LAMBDA required :
        IF required # {}
        THEN [raise |-> TRUE, required |-> required, warned |-> {}]
        ELSE [raise |-> FALSE, required |-> {}, warned |-> missing]))

----------------------------------------------------------------------------
(* PPVStatistic.  self is [stat, metadata, schema], schema standing for    *)
(* the descriptors of its class.  A read of a strict field that is absent   *)
(* raises KeyError; validation has ruled that out before any quantity is    *)
(* computed.                                                                *)

Meta(self, key) == MetaData_get(self.schema, self.metadata, key).val
MetaF(self, key) == Int2F(Meta(self, key))

flux(self) ==
    Bind(Mul(Mul(MetaF(self, "bunit"), Sq(MetaF(self, "dx"))), MetaF(self, "dv")),
         LAMBDA fac : Ok(Mul(fac, mom0(self.stat).val)))

\* a bare number has no unit: the AttributeError branch, fac = np.radians(1)
luminosity(self) ==
    Bind(Sym("radians", <<Int2F(1)>>), LAMBDA fac :
        Ok(Mul(Mul(Sq(MetaF(self, "dist")), flux(self).val), Sq(fac))))

\* ax = [[1, 0, 0], [0, 1, 0], [0, 0, 1]]
Basis3 == ToFloat2(<<<<1, 0, 0>>, <<0, 1, 0>>, <<0, 0, 1>>>>)

\* _sky_paxes: the two sky axes as lists, each with vaxis inserted
_sky_paxes(self) ==
    Bind(Meta(self, "vaxis"), LAMBDA vaxis :
    Bind(projected_paxes(self.stat, Pop(Basis3, vaxis)).out, LAMBDA p :
        IF ~p.ok THEN p
        ELSE Ok(<<Insert(p.val[1], 0, Int2F(vaxis)), Insert(p.val[2], 0, Int2F(vaxis))>>)))

\* dx * np.sqrt(self.stat.mom2_along(axis)) for the axis _sky_paxes returned
sky_axis_size(self, axis) ==
    Bind(mom2_along(self.stat, <<axis>>).out, LAMBDA m :
        IF ~m.ok THEN m ELSE Ok(Mul(MetaF(self, "dx"), Sqrt(m.val))))

\* sky_maj (k = 1) and sky_min (k = 2).  Returns the outcome and the direction
\* handed to mom2_along.
sky_axis(self, k) ==
    Bind(_sky_paxes(self), LAMBDA ab :
        IF ~ab.ok THEN [out |-> ab, passed |-> <<>>]
        ELSE [out |-> sky_axis_size(self, ab.val[k]), passed |-> ab.val[k]])

sky_maj(self) == sky_axis(self, 1)
sky_min(self) == sky_axis(self, 2)

\* _qsplit of a bare number is (1, q)
sky_rad(self) ==
    Bind(sky_maj(self).out, LAMBDA a :
    Bind(sky_min(self).out, LAMBDA b :
        IF ~a.ok THEN a ELSE IF ~b.ok THEN b
        ELSE Ok(Mul(Int2F(1), Sqrt(Mul(a.val, b.val))))))

vrms(self) ==
    Bind(SetItem(ToFloat(<<0, 0, 0>>), Meta(self, "vaxis"), Int2F(1)), LAMBDA ax :
    Bind(mom2_along(self.stat, <<ax>>).out, LAMBDA m :
        [out |-> IF ~m.ok THEN m ELSE Ok(Mul(MetaF(self, "dv"), Sqrt(m.val))),
         passed |-> ax]))

sky_deconvolved_rad(self) ==
    Bind(Mul(MetaF(self, "bmaj"), MetaF(self, "bmin")), LAMBDA beam :
    Bind(sky_maj(self).out, LAMBDA a :
    Bind(sky_min(self).out, LAMBDA b :
        IF ~a.ok THEN a ELSE IF ~b.ok THEN b
        ELSE Ok(Mul(Int2F(1),
                    Sqrt(Mul(Sqrt(Sub(Sq(a.val), beam)), Sqrt(Sub(Sq(b.val), beam)))))))))

\* a.pop(self.vaxis); np.degrees(np.arctan2(a[0], a[1])).
\* Returns the outcome and the two numbers handed to arctan2.
sky_pa(self) ==
    Bind(_sky_paxes(self), LAMBDA ab :
        IF ~ab.ok THEN [out |-> ab, passed |-> <<>>]
        ELSE Bind(Pop(ab.val[1], Meta(self, "vaxis")), LAMBDA a :
                [out |-> Ok(Sym("degrees", <<Sym("arctan2", <<a[1], a[2]>>)>>)),
                 passed |-> <<a[1], a[2]>>]))

----------------------------------------------------------------------------
(* The unimplemented classes *)

None == Sym("None", <<>>)

VectorStatistic_init(values_tuple, indices) == Raise("NotImplementedError")
divergence(self) == Raise("NotImplementedError")
curl(self) == Raise("NotImplementedError")

PPPStatistics_init(rhostat, vstat, md) == Raise("NotImplementedError")

PPPMethods ==
    {"PPPStatistics.mass", "PPPStatistics.volume", "PPPStatistics.surface_area",
     "PPPStatistics.virial", "PPPStatistics.vrms", "PPPStatistics.vz_rms",
     "PPPStatistics.pressure_vz", "PPPStatistics.pressure"}

\* each PPPStatistics method body is `pass`: the call returns None.  The
\* instance it is called on was made without PPPStatistics.__init__ (by a
\* subclass that overrides it, or by __new__).
PPPStatistics_method(self, name) == Ok(None)

----------------------------------------------------------------------------
(* Input families *)

\* sample values: missing, negative, zero, positive
ValSet == {NaN} \cup {Int2F(i) : i \in {-1, 0, 1}}

\* pixel coordinates of a two by two image
Coords == {0, 1}

\* pixels of a 2-D image, and their rank in C order (the order of np.where)
Pix == Coords \X Coords
Rank(p) == p[1] * Cardinality(Coords) + p[2]

\* the pixels of S in C order
RECURSIVE Sorted(_)
Sorted(S) ==
    IF S = {} THEN <<>>
    ELSE LET m == CHOOSE p \in S : \A q \in S : Rank(p) <= Rank(q)
         IN  <<m>> \o Sorted(S \ {m})

\* the tuple of coordinate arrays of a pixel sequence with nd coordinates
IndicesOf(ps, nd) == [j \in 1..nd |-> [i \in 1..Len(ps) |-> ps[i][j]]]

\* sample sets of at most MaxN distinct pixels of the image, any values
Samples2D ==
    UNION {{[values |-> v, indices |-> IndicesOf(Sorted(S), 2)] :
                v \in [1..Cardinality(S) -> ValSet]} :
           S \in {T \in SUBSET Pix : Cardinality(T) <= MaxN}}

\* argument pairs whose lengths differ: nv values, the first ni pixels
Mismatched2D ==
    {[values |-> [i \in 1..l[1] |-> Int2F(1)],
      indices |-> IndicesOf(SubSeq(Sorted(Pix), 1, l[2]), 2)] :
        l \in {m \in (0..MaxN) \X (0..MaxN) : m[1] # m[2]}}

\* structures of a PPV cube: regular, zero total with opposite signs, all
\* missing, one missing sample, a single pixel, all zero
CubeSamples ==
    {[values |-> ToFloat(<<1, 1>>), indices |-> <<<<0, 0>>, <<0, 1>>, <<0, 1>>>>],
     [values |-> ToFloat(<<1, -1>>), indices |-> <<<<0, 1>>, <<0, 1>>, <<0, 0>>>>],
     [values |-> <<NaN>>, indices |-> <<<<0>>, <<0>>, <<0>>>>],
     [values |-> <<Int2F(2), NaN, Int2F(1)>>, indices |-> <<<<0, 0, 1>>, <<0, 1, 1>>, <<1, 1, 0>>>>],
     [values |-> ToFloat(<<1>>), indices |-> <<<<0>>, <<1>>, <<0>>>>],
     [values |-> ToFloat(<<0, 0>>), indices |-> <<<<0, 1>>, <<0, 0>>, <<0, 0>>>>]}

\* the caller's direction arrays: rows whose norm is rational
Directions ==
    {ToFloat2(<<<<1, 0, 0>>>>), ToFloat2(<<<<3, 0, 4>>>>),
     ToFloat2(<<<<1, 0, 0>>, <<0, 0, 2>>>>)}

\* a metadata dict: values other than the defaults, any keys left out
FullMetadata(vaxis) ==
    [key \in PPVKeys |->
        CASE key = "vaxis" -> vaxis
          [] key \in {"bmaj", "bmin"} -> 1
          [] key = "dv" -> 3
          [] OTHER -> 2]

Restrict(f, K) == [x \in K |-> f[x]]

----------------------------------------------------------------------------
(* Calls on one statistic *)

NoStat == [built |-> FALSE, values |-> <<>>, indices |-> <<>>]
Self == [values |-> stat.values, indices |-> stat.indices]
PPV == [stat |-> Self, metadata |-> metadata, schema |-> schema]

NoFields == [given |-> FALSE, names |-> <<>>]
NoError == [exc |-> "", items |-> {}]
NoWarnings == [key \in PPVKeys |-> 0]

\* no catalog is being built
CatalogOff ==
    /\ structures = <<>>
    /\ fields = NoFields
    /\ labels = <<>>
    /\ pc = "off"
    /\ records = <<>>
    /\ warnings = NoWarnings
    /\ error = NoError
    /\ validations = 0
    /\ nread = 0
    /\ reads = {}

InitCommon ==
    /\ npAllNan \in {"zero", "nan"}
    /\ stat = NoStat
    /\ op = "idle"
    /\ result = Ok(<<>>)
    /\ passed = <<>>
    /\ schema = PPVSchema
    /\ CatalogOff

\* moments of 2-D sample sets
InitMom ==
    /\ InitCommon
    /\ \E s \in Samples2D \cup Mismatched2D :
          arg_values = s.values /\ arg_indices = s.indices
    /\ metadata = FullMetadata(0)
    /\ direction = ToFloat2(<<<<1, 0>>>>)

\* statistics of PPV structures
InitStat ==
    /\ InitCommon
    /\ \E s \in CubeSamples : arg_values = s.values /\ arg_indices = s.indices
    /\ \E v \in {0, 2}, K \in {PPVKeys, PPVKeys \ {"vaxis"}, PPVKeys \ {"bmaj"}} :
          metadata = Restrict(FullMetadata(v), K)
    /\ direction \in Directions

\* stat = ScalarStatistic(values, indices)
Construct ==
    /\ ~stat.built
    /\ op = "idle"
    /\ LET r == ScalarStatistic_init(arg_values, arg_indices)
       IN  /\ stat' = IF r.ok THEN [built |-> TRUE, values |-> r.val.values,
                                    indices |-> r.val.indices]
                      ELSE stat
           /\ result' = IF r.ok THEN Ok(<<>>) ELSE r
    /\ op' = "__init__"
    /\ passed' = <<>>
    /\ UNCHANGED <<npAllNan, arg_values, arg_indices, metadata, direction, schema, catVars>>

\* a call that returns r and leaves every object alone
Returns(name, r) ==
    /\ stat.built
    /\ op = "idle"
    /\ op' = name
    /\ result' = r
    /\ passed' = <<>>
    /\ UNCHANGED <<npAllNan, arg_values, arg_indices, stat, metadata, direction, schema, catVars>>

\* a call that returns r.out, having handed r.passed on
Hands(name, r) ==
    /\ stat.built
    /\ op = "idle"
    /\ op' = name
    /\ result' = r.out
    /\ passed' = r.passed
    /\ UNCHANGED <<npAllNan, arg_values, arg_indices, stat, metadata, direction, schema, catVars>>

\* a call on the caller's direction array
OnDirection(name, r) ==
    /\ stat.built
    /\ op = "idle"
    /\ op' = name
    /\ result' = r.out
    /\ passed' = <<>>
    /\ direction' = r.direction
    /\ UNCHANGED <<npAllNan, arg_values, arg_indices, stat, metadata, schema, catVars>>

\* the caller is done with the result of the last call
Discard ==
    /\ op # "idle"
    /\ op' = "idle"
    /\ result' = Ok(<<>>)
    /\ passed' = <<>>
    /\ UNCHANGED <<npAllNan, arg_values, arg_indices, stat, metadata, direction, schema, catVars>>

CallMom0 == Returns("mom0", mom0(Self))
CallMom1 == Returns("mom1", mom1(Self))
CallMom2 == Returns("mom2", mom2(Self))
CallCount == Returns("count", count(Self))
CallMom2Along == OnDirection("mom2_along", mom2_along(Self, direction))
CallPaxes == Returns("paxes", paxes(Self))
CallProjectedPaxes == OnDirection("projected_paxes", projected_paxes(Self, direction))
CallSurfaceArea == Returns("surface_area", surface_area(Self))
CallPerimeter == Returns("perimeter", perimeter(Self))

CallFlux == Returns("flux", flux(PPV))
CallLuminosity == Returns("luminosity", luminosity(PPV))
CallSkyMaj == Hands("sky_maj", sky_maj(PPV))
CallSkyMin == Hands("sky_min", sky_min(PPV))
CallSkyRad == Returns("sky_rad", sky_rad(PPV))
CallVrms == Hands("vrms", vrms(PPV))
CallSkyDeconvolvedRad == Returns("sky_deconvolved_rad", sky_deconvolved_rad(PPV))
CallSkyPa == Hands("sky_pa", sky_pa(PPV))

CallVectorStatistic == Returns("VectorStatistic", VectorStatistic_init(<<>>, stat.indices))
CallDivergence == Returns("divergence", divergence(Self))
CallCurl == Returns("curl", curl(Self))
CallPPPStatistics == Returns("PPPStatistics", PPPStatistics_init(Self, Self, metadata))
CallPPPMethod == \E m \in PPPMethods : Returns(m, PPPStatistics_method(Self, m))

NextMom == Construct \/ Discard \/ CallMom0 \/ CallMom1 \/ CallMom2 \/ CallCount

NextStat ==
    \/ Construct \/ Discard
    \/ CallMom0 \/ CallMom1 \/ CallMom2 \/ CallCount
    \/ CallMom2Along \/ CallPaxes \/ CallProjectedPaxes
    \/ CallSurfaceArea \/ CallPerimeter
    \/ CallFlux \/ CallLuminosity \/ CallSkyMaj \/ CallSkyMin \/ CallSkyRad
    \/ CallVrms \/ CallSkyDeconvolvedRad \/ CallSkyPa
    \/ CallVectorStatistic \/ CallDivergence \/ CallCurl
    \/ CallPPPStatistics \/ CallPPPMethod

SpecMom == InitMom /\ [][NextMom]_vars
SpecStat == InitStat /\ [][NextStat]_vars


----------------------------------------------------------------------------
(* ppv_catalog *)

\* the public functions of class PPVStatistic, in one order of its __dict__
DefaultFields ==
    <<"flux", "luminosity", "sky_maj", "sky_min", "sky_rad", "vrms",
      "sky_deconvolved_rad", "sky_pa">>

\* fields or [k for k, v in PPVStatistic.__dict__.items() ...]: None and the
\* empty list are both false
fields_or_default(f) == IF f.given /\ f.names # <<>> THEN f.names ELSE DefaultFields

\* getattr(stat, lbl)()
getattr_call(ppv, lbl) ==
    CASE lbl = "flux" -> flux(ppv)
      [] lbl = "luminosity" -> luminosity(ppv)
      [] lbl = "sky_maj" -> sky_maj(ppv).out
      [] lbl = "sky_min" -> sky_min(ppv).out
      [] lbl = "sky_rad" -> sky_rad(ppv)
      [] lbl = "vrms" -> vrms(ppv).out
      [] lbl = "sky_deconvolved_rad" -> sky_deconvolved_rad(ppv)
      [] lbl = "sky_pa" -> sky_pa(ppv).out
      [] OTHER -> Raise("AttributeError")

\* the metadata fields the body of quantity lbl reads
ReadsOf(lbl) ==
    CASE lbl = "flux" -> {"bunit", "dx", "dv"}
      [] lbl = "luminosity" -> {"dist", "bunit", "dx", "dv"}
      [] lbl \in {"sky_maj", "sky_min", "sky_rad"} -> {"dx", "vaxis"}
      [] lbl = "vrms" -> {"vaxis", "dv"}
      [] lbl = "sky_deconvolved_rad" -> {"bmaj", "bmin", "dx", "vaxis"}
      [] lbl = "sky_pa" -> {"vaxis"}
      [] OTHER -> {}

Range(f) == {f[x] : x \in DOMAIN f}

\* dict((lbl, getattr(stat, lbl)()) for lbl in fields), from label i on, d
\* being the items made so far: the dict, or the first exception raised
RECURSIVE record_from(_, _, _, _)
record_from(ppv, lbls, i, d) ==
    IF i > Len(lbls) THEN Ok(d)
    ELSE Bind(getattr_call(ppv, lbls[i]), LAMBDA o :
            IF ~o.ok THEN o
            ELSE record_from(ppv, lbls, i + 1,
                    [lbl \in DOMAIN d \cup {lbls[i]} |->
                        IF lbl = lbls[i] THEN o.val ELSE d[lbl]]))

record_of(ppv, lbls) == record_from(ppv, lbls, 1, <<>>)

\* _build_table: names = sorted(data[0].keys()) in either conversion; the
\* table itself is made by astropy or numpy from the list of dicts
_build_table(data) == IF data = <<>> THEN Raise("IndexError") ELSE Ok(data)

\* structures of the cube: regular, and zero total with opposite signs
CatalogSamples ==
    {[values |-> ToFloat(<<1, 1>>), indices |-> <<<<0, 0>>, <<0, 1>>, <<0, 1>>>>],
     [values |-> ToFloat(<<1, -1>>), indices |-> <<<<0, 1>>, <<0, 1>>, <<0, 0>>>>]}

\* the fields argument: not given, empty, one name, two names out of order
FieldArgs ==
    {NoFields, [given |-> TRUE, names |-> <<>>],
     [given |-> TRUE, names |-> <<"flux">>],
     [given |-> TRUE, names |-> <<"sky_pa", "flux">>]}

\* the strict fields of the statistics class.  PPVStatistic declares none;
\* MetaData(..., strict=True) declares one.
StrictSets == {{}, {"dx"}, {"dx", "dist"}}

\* the fields a caller leaves out: strict ones, one with default 0, the axis
AbsentKeys == {"dx", "dist", "bmaj", "vaxis"}

StrictSchema(strict) == [key \in PPVKeys |-> MetaData(PPVSchema[key].default, key \in strict)]

InitCatalog ==
    /\ npAllNan \in {"zero", "nan"}
    /\ arg_values = <<>> /\ arg_indices = <<>>
    /\ stat = NoStat
    /\ direction = <<>>
    /\ op = "idle"
    /\ result = Ok(<<>>)
    /\ passed = <<>>
    /\ \E strict \in StrictSets : schema = StrictSchema(strict)
    /\ \E A \in {B \in SUBSET AbsentKeys : Cardinality(B) <= MaxAbsent} :
          metadata = Restrict(FullMetadata(0), PPVKeys \ A)
    /\ \E n \in 0..MaxStructs : structures \in [1..n -> CatalogSamples]
    /\ fields \in FieldArgs
    /\ labels = <<>>
    /\ pc = "start"
    /\ records = <<>>
    /\ warnings = NoWarnings
    /\ error = NoError
    /\ validations = 0
    /\ nread = 0
    /\ reads = {}

\* _warn_missing_metadata(PPVStatistic, metadata)
Validate ==
    /\ pc = "start"
    /\ LET v == _warn_missing_metadata(schema, metadata)
       IN  /\ pc' = IF v.raise THEN "failed" ELSE "fields"
           /\ error' = IF v.raise THEN [exc |-> "RuntimeError", items |-> v.required]
                        ELSE error
           /\ warnings' = [key \in PPVKeys |->
                              warnings[key] + (IF key \in v.warned THEN 1 ELSE 0)]
    /\ validations' = validations + 1
    /\ UNCHANGED <<npAllNan, metadata, schema, statVars, structures, fields, labels,
                   records, nread, reads>>

\* result = []; fields = fields or [...]; print fields
ChooseFields ==
    /\ pc = "fields"
    /\ labels' = fields_or_default(fields)
    /\ records' = <<>>
    /\ pc' = "loop"
    /\ UNCHANGED <<npAllNan, metadata, schema, statVars, structures, fields,
                   warnings, error, validations, nread, reads>>

\* one turn of the loop over structures
ProcessStructure ==
    /\ pc = "loop"
    /\ nread < Len(structures)
    /\ nread' = nread + 1
    /\ Bind(structures[nread + 1], LAMBDA struct :
       Bind(ScalarStatistic_init(struct.values, struct.indices).val, LAMBDA s :
       Bind(record_of([stat |-> s, metadata |-> metadata, schema |-> schema], labels),
            LAMBDA r :
           /\ records' = IF r.ok THEN Append(records, r.val) ELSE records
           /\ error' = IF r.ok THEN error ELSE [exc |-> r.exc, items |-> {}]
           /\ pc' = IF r.ok THEN "loop" ELSE "failed")))
    /\ reads' = reads \cup
          {<<key, MetaData_get(schema, metadata, key).val>> :
              key \in UNION {ReadsOf(lbl) : lbl \in Range(labels)}}
    /\ UNCHANGED <<npAllNan, metadata, schema, statVars, structures, fields, labels,
                   warnings, validations>>

\* return _build_table(result)
BuildTable ==
    /\ pc = "loop"
    /\ nread = Len(structures)
    /\ LET t == _build_table(records)
       IN  /\ pc' = IF t.ok THEN "done" ELSE "failed"
           /\ error' = IF t.ok THEN error ELSE [exc |-> t.exc, items |-> {}]
    /\ UNCHANGED <<npAllNan, metadata, schema, statVars, structures, fields, labels,
                   records, warnings, validations, nread, reads>>

Next == Validate \/ ChooseFields \/ ProcessStructure \/ BuildTable

Spec == InitCatalog /\ [][Next]_vars

----------------------------------------------------------------------------
(* Claims about ScalarStatistic, under SpecMom *)

\* the statistic was built from arrays of one length
Aligned == \A j \in 1..Len(stat.indices) : Len(stat.indices[j]) = Len(stat.values)

\* the sample set with the missing samples deleted, values and coordinates
Kept == {i \in 1..Len(stat.values) : ~IsNaN(stat.values[i])}
KeptSeq(xs) ==
    LET pos[n \in 0..Len(xs)] ==
            IF n = 0 THEN <<>>
            ELSE IF n \in Kept THEN Append(pos[n - 1], xs[n]) ELSE pos[n - 1]
    IN  pos[Len(xs)]
Deleted ==
    [values |-> KeptSeq(stat.values),
     indices |-> [j \in 1..Len(stat.indices) |-> KeptSeq(stat.indices[j])]]

\* at least one sample is not missing and the total is not zero
HasTotal ==
    /\ stat.built /\ Aligned
    /\ Kept # {}
    /\ SumSeq(KeptSeq(stat.values)) # Int2F(0)

\* C7: missing (NaN) samples are excluded from every weighted sum: with at least
\* one sample present and a non-zero total, mom0, mom1 and mom2 return what they
\* return for the sample set with the missing samples deleted, and count()
\* returns the number of all samples, the missing ones included.
C7_MissingSamplesExcluded ==
    HasTotal =>
        /\ op = "mom0" => result = mom0(Deleted)
        /\ op = "mom1" => result = mom1(Deleted)
        /\ op = "mom2" => result = mom2(Deleted)
        /\ op = "count" => result = Ok(Int2F(Len(stat.values)))

\* mom2 of a set with a missing sample and a non-zero covariance was computed
C7_Witness ==
    /\ HasTotal
    /\ Kept # 1..Len(stat.values)
    /\ op = "mom2" /\ result.ok
    /\ result.val[1][2] # Int2F(0)

\* C10: every ScalarStatistic that exists holds coordinate arrays and a value
\* array of one length, because the constructor fails on any other arguments.
C10_ConstructorRejectsMismatch == stat.built => Aligned

----------------------------------------------------------------------------
(* Claims about the statistics of one PPV structure, under SpecStat *)

vaxis == MetaData_get(schema, metadata, "vaxis").val

\* the axes projected_paxes finds in the plane of the sky: two numbers each
SkyPlaneAxes == projected_paxes(Self, Pop(Basis3, vaxis)).out.val

\* a sky-plane axis as a direction of the cube: 0 along the velocity axis
Embedded(ax) == Insert(ax, vaxis, Int2F(0))

\* C4: sky_maj and sky_min measure the spread along a direction that lies in
\* the plane of the sky: the major (minor) axis found by projected_paxes, with
\* component 0 at the position of the velocity axis, whatever vaxis is.
C4_SkyAxesLieInSkyPlane ==
    /\ (op = "sky_maj" /\ passed # <<>>) => passed = Embedded(SkyPlaneAxes[1])
    /\ (op = "sky_min" /\ passed # <<>>) => passed = Embedded(SkyPlaneAxes[2])

\* C5: sky_pa is the angle of the two in-plane components of the major axis,
\* in their order, whatever vaxis is.
C5_PositionAngleOfMajorAxis ==
    (op = "sky_pa" /\ passed # <<>>) => passed = SkyPlaneAxes[1]

\* the non-missing values sum to zero (all of them missing included)
ZeroTotal == stat.built /\ nansum(stat.values) \in {Int2F(0), NaN}

\* the operations that compute a number from the samples
NumericOps ==
    {"mom0", "mom1", "mom2", "count", "mom2_along", "paxes", "flux", "luminosity",
     "sky_maj", "sky_min", "sky_rad", "vrms", "sky_deconvolved_rad", "sky_pa"}

\* C6: a numeric domain condition is never an exception: for a structure whose
\* non-missing values sum to zero, and for one smaller than the beam, every
\* quantity is returned (as NaN or Inf where it is undefined).
C6_NumericConditionsNeverRaise ==
    /\ (ZeroTotal /\ op \in NumericOps) => result.ok
    /\ op = "sky_deconvolved_rad" => result.ok

\* what operation o returns on a statistic built afresh from the constructor's
\* arguments, the metadata and the caller's direction
Fresh(o) ==
    Bind(ScalarStatistic_init(arg_values, arg_indices).val, LAMBDA s :
    Bind([stat |-> s, metadata |-> metadata, schema |-> schema], LAMBDA ppv :
        CASE o = "mom0" -> mom0(s)
          [] o = "mom1" -> mom1(s)
          [] o = "mom2" -> mom2(s)
          [] o = "count" -> count(s)
          [] o = "mom2_along" -> mom2_along(s, direction).out
          [] o = "paxes" -> paxes(s)
          [] o = "projected_paxes" -> projected_paxes(s, direction).out
          [] o = "flux" -> flux(ppv)
          [] o = "luminosity" -> luminosity(ppv)
          [] o = "sky_maj" -> sky_maj(ppv).out
          [] o = "sky_min" -> sky_min(ppv).out
          [] o = "sky_rad" -> sky_rad(ppv)
          [] o = "vrms" -> vrms(ppv).out
          [] o = "sky_deconvolved_rad" -> sky_deconvolved_rad(ppv)
          [] o = "sky_pa" -> sky_pa(ppv).out))

ComputingOps == NumericOps \cup {"projected_paxes"}

\* C8: no operation of a built statistic changes the statistic, the arrays it
\* was built from, the metadata or the caller's direction array, so each
\* operation returns what it returns on a statistic built afresh, whatever was
\* called before it.
C8_OperationsLeaveInputsAlone ==
    [][/\ stat.built => stat' = stat
       /\ arg_values' = arg_values /\ arg_indices' = arg_indices
       /\ metadata' = metadata /\ direction' = direction
       /\ op' \in ComputingOps => result' = Fresh(op')]_vars

\* mom2_along has normalised a direction that is not a unit vector
C8_Witness ==
    /\ op = "mom2_along" /\ result.ok
    /\ \E i \in 1..Len(direction) : norm(direction[i]) # Int2F(1)

UnimplementedOps ==
    {"surface_area", "perimeter", "VectorStatistic", "divergence", "curl",
     "PPPStatistics"} \cup PPPMethods

\* C9: every unimplemented operation fails with NotImplementedError and never
\* returns a placeholder value.
C9_UnimplementedOperationsFail ==
    op \in UnimplementedOps => (~result.ok /\ result.exc = "NotImplementedError")

----------------------------------------------------------------------------
(* Claims about ppv_catalog, under Spec *)

\* the statistic ppv_catalog builds for structure i
StatOf(i) ==
    [stat |-> ScalarStatistic_init(structures[i].values, structures[i].indices).val,
     metadata |-> metadata, schema |-> schema]

\* the field list the caller passed, the full set when none was passed
AskedFor == IF fields.given THEN Range(fields.names) ELSE Range(DefaultFields)

\* C1: a catalog that is built holds one record per input structure, in input
\* order, and the keys of each record are exactly the field list the caller
\* passed (an empty list included), the full set of quantities only when no
\* list was passed.
C1_OneRecordPerStructure ==
    pc = "done" =>
        /\ Len(records) = Len(structures)
        /\ \A i \in 1..Len(records) :
              /\ DOMAIN records[i] = AskedFor
              /\ \A lbl \in DOMAIN records[i] :
                    records[i][lbl] = getattr_call(StatOf(i), lbl).val

\* the strict fields of the schema absent from the metadata dict
StrictAbsent == {key \in PPVKeys : schema[key].strict /\ key \notin DOMAIN metadata}

\* the declared fields absent from the metadata dict
Absent == PPVKeys \ DOMAIN metadata

\* C2: validation runs exactly once per catalog build, and with one or more
\* strict fields absent the build fails with a single RuntimeError that names
\* every absent strict field, before any structure is read and before any
\* record is made.
C2_StrictFieldsFailFirst ==
    /\ validations = (IF pc = "start" THEN 0 ELSE 1)
    /\ (StrictAbsent # {} /\ pc # "start") =>
          /\ pc = "failed"
          /\ error = [exc |-> "RuntimeError", items |-> StrictAbsent]
          /\ nread = 0 /\ records = <<>> /\ reads = {}

\* the build failed with two strict fields absent
C2_Witness ==
    /\ pc = "failed" /\ validations = 1
    /\ Cardinality(StrictAbsent) = 2

\* one warning for each absent field, and every read so far returned the
\* dict's value for a present field and the default for an absent one
WarningsAndReads ==
    /\ pc \notin {"start"} =>
          warnings = [key \in PPVKeys |-> IF key \in Absent THEN 1 ELSE 0]
    /\ \A rd \in reads :
          rd[2] = IF rd[1] \in Absent
                  THEN (IF rd[1] \in {"bmaj", "bmin"} THEN 0 ELSE 1)
                  ELSE metadata[rd[1]]

\* C3: with no strict field absent the catalog is built, with exactly one
\* warning for each absent declared field and none for a present one, and every
\* read of an absent field returns its default (0 for bmaj and bmin, 1 for the
\* others), every read of a present field the dict's value.
C3_LenientFieldsWarnAndDefault ==
    StrictAbsent = {} => (pc # "failed" /\ WarningsAndReads)

=============================================================================
